---- MODULE Spec2Model ----
(***************************************************************************)
(* State-machine model of the_snake.py: the Snake and Apple objects and    *)
(* the main game loop.  Coordinates are kept in pixels, as in the source;  *)
(* a grid cell is a pixel position divided by GRID_SIZE.                   *)
(***************************************************************************)
EXTENDS Integers, Sequences, FiniteSets, TLC

\* ---------------------------------------------------------------- constants
SCREEN_WIDTH == 640
SCREEN_HEIGHT == 480
GRID_SIZE == 20

GRID_WIDTH == SCREEN_WIDTH \div GRID_SIZE
GRID_HEIGHT == SCREEN_HEIGHT \div GRID_SIZE

UP == <<0, -1>>
DOWN == <<0, 1>>
LEFT == <<-1, 0>>
RIGHT == <<1, 0>>

\* Python's None (an Optional[Tuple[int, int]] that is absent).
None == <<>>

\* random.choice([UP, DOWN, LEFT, RIGHT]) picks one of these.
Directions == {UP, DOWN, LEFT, RIGHT}

\* ------------------------------------------------------------------- bounds
\* Ticks of the main loop explored in one behaviour.
MaxTicks == 2
\* Keyboard events drained by one call of handle_keys.
MaxEvents == 2
\* Cells of the longest body of scenario C.
MaxBody == 4

\* ------------------------------------------------------------------ helpers
\* The centre of the screen aligned to the grid (GameObject.__init__, reset).
Centre ==
  << (((SCREEN_WIDTH \div 2) \div GRID_SIZE) * GRID_SIZE),
     (((SCREEN_HEIGHT \div 2) \div GRID_SIZE) * GRID_SIZE) >>

\* Grid cell of a pixel position.
CellOf(p) == << p[1] \div GRID_SIZE, p[2] \div GRID_SIZE >>

\* random.randint(0, GRID_WIDTH - 1) and random.randint(0, GRID_HEIGHT - 1):
\* every column and every row of the grid, both ends included.
FoodXs == 0 .. GRID_WIDTH - 1

FoodYs == 0 .. GRID_HEIGHT - 1

\* Apple.randomize_position: the positions it may assign, any of the
\* GRID_WIDTH * GRID_HEIGHT cells.
RandomPositions ==
  { << gx * GRID_SIZE, gy * GRID_SIZE >> : gx \in FoodXs, gy \in FoodYs }

\* A reversal test that lost its negation: it rejects a repeated direction
\* instead of the opposite one.
IsOpposite_sameSign(cur, nxt) == (cur[1] = nxt[1]) /\ (cur[2] = nxt[2])

\* The reversal test of update_direction.
IsOpposite(cur, nxt) == (cur[1] = -nxt[1]) /\ (cur[2] = -nxt[2])

\* An update_direction without the reversal check.
CommitDirection_noCheck(dir, nd) ==
  IF nd = None THEN [direction |-> dir, next_direction |-> nd]
  ELSE [direction |-> nd, next_direction |-> None]

\* Snake.update_direction as a function of (direction, next_direction):
\* the pair of their new values.
CommitDirection(dir, nd) ==
  IF nd = None THEN [direction |-> dir, next_direction |-> nd]
  ELSE IF IsOpposite(dir, nd) THEN [direction |-> dir, next_direction |-> nd]
  ELSE [direction |-> nd, next_direction |-> None]

\* A new head computed without the modulo.
NewHead_noWrap(head, dir) ==
  << head[1] + dir[1] * GRID_SIZE, head[2] + dir[2] * GRID_SIZE >>

\* A new head wrapped by the board size in cells instead of pixels.
NewHead_gridModulo(head, dir) ==
  << (head[1] + dir[1] * GRID_SIZE) % GRID_WIDTH,
     (head[2] + dir[2] * GRID_SIZE) % GRID_HEIGHT >>

\* The new head computed by Snake.move.
NewHead(head, dir) ==
  << (head[1] + dir[1] * GRID_SIZE) % SCREEN_WIDTH,
     (head[2] + dir[2] * GRID_SIZE) % SCREEN_HEIGHT >>

\* positions[2:-1]: a collision test that also ignores the tail cell.
CollisionCells_skipTail(ps) == { ps[i] : i \in 3 .. Len(ps) - 1 }

\* positions[1:]: a collision test that also counts the neck cell.
CollisionCells_fromNeck(ps) == { ps[i] : i \in 2 .. Len(ps) }

\* positions[2:], the cells tested for self-collision.
CollisionCells(ps) == { ps[i] : i \in 3 .. Len(ps) }

\* No event is being processed: handle_keys has not fetched one or has returned.
NoEvent == "none"

\* The key codes of a KEYDOWN event; K_OTHER is any unrecognised key.
Keys == {"K_UP", "K_DOWN", "K_LEFT", "K_RIGHT", "K_OTHER"}

\* A handler in which an unrecognised key clears the buffered direction.
KeyDirection_otherClears(k, nd) ==
  IF k = "K_UP" THEN UP
  ELSE IF k = "K_DOWN" THEN DOWN
  ELSE IF k = "K_LEFT" THEN LEFT
  ELSE IF k = "K_RIGHT" THEN RIGHT
  ELSE None

\* A handler in which a buffered direction is not overwritten by a later
\* key event of the same queue (first event wins).
KeyDirection_firstWins(k, nd) ==
  IF nd # None THEN nd
  ELSE IF k = "K_UP" THEN UP
  ELSE IF k = "K_DOWN" THEN DOWN
  ELSE IF k = "K_LEFT" THEN LEFT
  ELSE IF k = "K_RIGHT" THEN RIGHT
  ELSE nd

\* handle_keys: the value of next_direction after a KEYDOWN of key k.
KeyDirection(k, nd) ==
  IF k = "K_UP" THEN UP
  ELSE IF k = "K_DOWN" THEN DOWN
  ELSE IF k = "K_LEFT" THEN LEFT
  ELSE IF k = "K_RIGHT" THEN RIGHT
  ELSE nd

\* -------------------------------------------------------------------- state
VARIABLES
  positions,       \* Snake.positions, head first
  length,          \* Snake.length
  direction,       \* Snake.direction
  next_direction,  \* Snake.next_direction
  last,            \* Snake.last
  apple,           \* Apple.position
  pc,              \* position of main: "keys", "move", "food" or "quit"
  nev,             \* events drained so far by the current handle_keys
  event,           \* key of the event handle_keys is processing, if any
  ticks            \* completed iterations of the main loop

vars == <<positions, length, direction, next_direction, last, apple, pc, nev, event, ticks>>

\* Snake() followed by Apple() in main.
Init ==
  /\ positions = <<Centre>>
  /\ length = 1
  /\ direction = RIGHT
  /\ next_direction = None
  /\ last = None
  /\ apple \in RandomPositions
  /\ pc = "keys"
  /\ nev = 0
  /\ event = NoEvent
  /\ ticks = 0

\* ------------------------------------------------------------------ actions
\* handle_keys: one KEYDOWN event of the drained queue.
KeyDown ==
  /\ pc = "keys"
  /\ ticks < MaxTicks
  /\ nev < MaxEvents
  /\ \E k \in Keys :
        /\ event' = k
        /\ next_direction' = KeyDirection(k, next_direction)
  /\ nev' = nev + 1
  /\ UNCHANGED <<positions, length, direction, last, apple, pc, ticks>>

\* handle_keys: a QUIT event raises SystemExit and ends main; the locals of
\* handle_keys are gone, the fields of the objects are left as they are.
Quit ==
  /\ pc = "keys"
  /\ ticks < MaxTicks
  /\ pc' = "quit"
  /\ nev' = 0
  /\ event' = NoEvent
  /\ UNCHANGED <<positions, length, direction, next_direction, last, apple, ticks>>

\* The event queue is empty: handle_keys returns and main calls
\* snake.update_direction().
UpdateDirection ==
  /\ pc = "keys"
  /\ ticks < MaxTicks
  /\ direction' = CommitDirection(direction, next_direction).direction
  /\ next_direction' = CommitDirection(direction, next_direction).next_direction
  /\ pc' = "move"
  /\ nev' = 0
  /\ event' = NoEvent
  /\ UNCHANGED <<positions, length, last, apple, ticks>>

\* A reset that forgets to clear the buffered direction.
Reset_keepPending ==
  /\ length' = 1
  /\ positions' = <<Centre>>
  /\ last' = None
  /\ direction' \in Directions
  /\ next_direction' = next_direction

\* A reset that forgets to restore the length.
Reset_keepLength ==
  /\ length' = length
  /\ positions' = <<Centre>>
  /\ last' = None
  /\ direction' \in Directions
  /\ next_direction' = None

\* A reset that restores the length but forgets to rebuild the body.
Reset_keepBody ==
  /\ length' = 1
  /\ positions' = positions
  /\ last' = None
  /\ direction' \in Directions
  /\ next_direction' = None

\* Snake.reset, called by move on a self-collision.
Reset ==
  /\ length' = 1
  /\ positions' = <<Centre>>
  /\ last' = None
  /\ direction' \in Directions
  /\ next_direction' = None

\* A move that removes the tail as soon as the body reaches the growth
\* target (>= instead of >), so the body never gains a cell.
Advance_popAtLength(new_head) ==
  LET inserted == <<new_head>> \o positions IN
  /\ IF Len(inserted) >= length
       THEN /\ positions' = SubSeq(inserted, 1, Len(inserted) - 1)
            /\ last' = inserted[Len(inserted)]
       ELSE /\ positions' = inserted
            /\ last' = None
  /\ UNCHANGED <<length, direction, next_direction>>

\* A move that never removes the tail.
Advance_keepTail(new_head) ==
  /\ positions' = <<new_head>> \o positions
  /\ last' = None
  /\ UNCHANGED <<length, direction, next_direction>>

\* Snake.move without a collision: insert the head, pop the tail if the
\* snake has not grown.
Advance(new_head) ==
  LET inserted == <<new_head>> \o positions IN
  /\ IF Len(inserted) > length
       THEN /\ positions' = SubSeq(inserted, 1, Len(inserted) - 1)
            /\ last' = inserted[Len(inserted)]
       ELSE /\ positions' = inserted
            /\ last' = None
  /\ UNCHANGED <<length, direction, next_direction>>

\* A move that ends the game on a self-collision instead of resetting.
Move_gameOver ==
  /\ pc = "move"
  /\ LET new_head == NewHead(positions[1], direction) IN
       IF new_head \in CollisionCells(positions)
         THEN /\ pc' = "over"
              /\ UNCHANGED <<positions, length, direction, next_direction, last>>
         ELSE /\ Advance(new_head)
              /\ pc' = "food"
  /\ UNCHANGED <<apple, nev, event, ticks>>

\* main calls snake.move().
Move ==
  /\ pc = "move"
  /\ LET new_head == NewHead(positions[1], direction) IN
       IF new_head \in CollisionCells(positions)
         THEN Reset
         ELSE Advance(new_head)
  /\ pc' = "food"
  /\ UNCHANGED <<apple, nev, event, ticks>>

\* A food check that never puts the new apple on a cell of the snake.
EatCheck_avoidBody ==
  /\ pc = "food"
  /\ IF positions[1] = apple
       THEN /\ length' = length + 1
            /\ apple' \in RandomPositions \ { positions[i] : i \in 1 .. Len(positions) }
       ELSE UNCHANGED <<length, apple>>
  /\ pc' = "keys"
  /\ nev' = 0
  /\ ticks' = ticks + 1
  /\ UNCHANGED <<positions, direction, next_direction, last, event>>

\* A food check that relocates the apple but forgets to grow the snake.
EatCheck_noGrow ==
  /\ pc = "food"
  /\ IF positions[1] = apple
       THEN /\ length' = length
            /\ apple' \in RandomPositions
       ELSE UNCHANGED <<length, apple>>
  /\ pc' = "keys"
  /\ nev' = 0
  /\ ticks' = ticks + 1
  /\ UNCHANGED <<positions, direction, next_direction, last, event>>

\* main: the food check after move, then draw and clock.tick.
EatCheck ==
  /\ pc = "food"
  /\ IF positions[1] = apple
       THEN /\ length' = length + 1
            /\ apple' \in RandomPositions
       ELSE UNCHANGED <<length, apple>>
  /\ pc' = "keys"
  /\ nev' = 0
  /\ ticks' = ticks + 1
  /\ UNCHANGED <<positions, direction, next_direction, last, event>>

Next == KeyDown \/ Quit \/ UpdateDirection \/ Move \/ EatCheck

Spec == Init /\ [][Next]_vars

\* A snake of length 1 that has roamed from the centre to a corner cell of
\* the board without eating: it arrived there by a move in its direction, so
\* the cell it left is the one behind it, and the apple is neither under its
\* head nor on the cell it left: the food check would have eaten an apple
\* under the head at this or the previous tick boundary and made length 2,
\* and the apple only moves when it is eaten.  In the corner of column 0 and
\* row 0 it heads LEFT or UP, in the corner of the last column and the last
\* row it heads RIGHT or DOWN: the directions that cross the board edge on
\* its next move.
CornerStart == <<0, 0>>

FarCornerStart == <<SCREEN_WIDTH - GRID_SIZE, SCREEN_HEIGHT - GRID_SIZE>>

InitRoam ==
  /\ \/ positions = <<CornerStart>> /\ direction \in {LEFT, UP}
     \/ positions = <<FarCornerStart>> /\ direction \in {RIGHT, DOWN}
  /\ length = 1
  /\ next_direction = None
  /\ last = NewHead(positions[1], <<-direction[1], -direction[2]>>)
  /\ apple \in RandomPositions \ {positions[1], last}
  /\ pc = "keys"
  /\ nev = 0
  /\ event = NoEvent
  /\ ticks = 0

\* The game continued from a snake that has reached a corner of the board.
SpecRoam == InitRoam /\ [][Next]_vars

\* The values the fields of the two objects and the loop bookkeeping take:
\* a positive growth target, directions, grid-aligned positions on the
\* screen, and counters within the explored bounds.
OnGrid(p) ==
  /\ p[1] \in 0 .. SCREEN_WIDTH - 1 /\ p[1] % GRID_SIZE = 0
  /\ p[2] \in 0 .. SCREEN_HEIGHT - 1 /\ p[2] % GRID_SIZE = 0

TypeOK ==
  /\ length \in Nat /\ length >= 1
  /\ direction \in Directions
  /\ next_direction \in Directions \cup {None}
  /\ pc \in {"keys", "move", "food", "quit"}
  /\ Len(positions) >= 1
  /\ \A i \in 1 .. Len(positions) : OnGrid(positions[i])
  /\ last = None \/ OnGrid(last)
  /\ apple \in RandomPositions
  /\ nev \in 0 .. MaxEvents
  /\ event \in Keys \cup {NoEvent}
  /\ ticks \in 0 .. MaxTicks

\* ----------------------------------------------------------- vocabulary
\* The opposite pairs of the data model: UP <-> DOWN, LEFT <-> RIGHT.
OppositeOf(d) ==
  CASE d = UP -> DOWN
    [] d = DOWN -> UP
    [] d = LEFT -> RIGHT
    [] d = RIGHT -> LEFT

\* The step of main that is being taken from the current state.
AtTickBoundary == pc = "keys"
CommitStep == pc = "keys" /\ pc' = "move"
MoveStep == pc = "move" /\ pc' = "food"
FoodStep == pc = "food" /\ pc' = "keys"

\* The new head of the move about to be made, and whether it lies on a
\* body cell at index >= 2 (0-based) of the pre-move body.
ComputedHead == NewHead(positions[1], direction)
HitsBodyFromIndex2 == \E i \in 3 .. Len(positions) : positions[i] = ComputedHead

\* The state right after move() has returned from a reset: a move that does
\* not reset leaves two cells or more, or records the removed tail in last.
AfterReset == pc = "food" /\ positions = <<Centre>> /\ last = None
ResetDone == positions' = <<Centre>> /\ last' = None

\* Two pixel positions one cell apart on exactly one axis, modulo the board.
WrapAdjacent(a, b) ==
  LET ddx == (a[1] - b[1]) % SCREEN_WIDTH
      ddy == (a[2] - b[2]) % SCREEN_HEIGHT
  IN \/ ddx \in {GRID_SIZE, SCREEN_WIDTH - GRID_SIZE} /\ ddy = 0
     \/ ddy \in {GRID_SIZE, SCREEN_HEIGHT - GRID_SIZE} /\ ddx = 0

\* ------------------------------------------------------------------ claims
\* C1: at every tick boundary the number of body cells is at most the
\* growth target: len(positions) <= length.
C1_LengthBound == AtTickBoundary => Len(positions) <= length

\* The tick boundary two ticks after the grown snake ran into itself: the
\* reset left one cell on the centre, the food check of the reset tick ate
\* the food lying there, and the next move brought the body up to the
\* growth target 2.
C1_Witness ==
  /\ AtTickBoundary /\ ticks = 2
  /\ Len(positions) = 2 /\ length = 2 /\ positions[2] = Centre

\* C2 as stated: the growth target never decreases, on any step of any
\* tick, self-collision ticks included.
C2_NeverDecreases == [][length' >= length]_vars

\* C2 amended: the growth target never decreases on a step that is not a
\* self-collision reset, and a self-collision reset sets it to 1.
C2_DecreasesOnlyOnReset ==
  [][ /\ ~(MoveStep /\ HitsBodyFromIndex2) => length' >= length
      /\ (MoveStep /\ HitsBodyFromIndex2) => length' = 1 ]_vars

\* A reset has just brought the growth target of the grown snake back to 1.
C2_Witness == AfterReset /\ length = 1 /\ ticks = 0 /\ apple # Centre

\* C3: on a tick whose move reset the snake, the food step changes neither
\* the growth target nor the food position, wherever the food is.
C3_ResetSkipsFood == [][ (AfterReset /\ FoodStep) => (length' = length /\ apple' = apple) ]_vars

\* C4: update_direction called with a buffered direction opposite to the
\* current one empties the buffer and leaves the direction unchanged.
C4_ReversalDiscarded ==
  [][ (CommitStep /\ next_direction # None /\ next_direction = OppositeOf(direction))
        => (next_direction' = None /\ direction' = direction) ]_vars

\* C5: update_direction keeps direction d when the buffered p is the
\* opposite of d; sets direction to p and clears the buffer when p is
\* perpendicular or equal to d; changes nothing when nothing is buffered.
C5_CommitTable ==
  [][ CommitStep =>
        IF next_direction = None
          THEN direction' = direction /\ next_direction' = None
          ELSE IF next_direction = OppositeOf(direction)
            THEN direction' = direction
            ELSE direction' = next_direction /\ next_direction' = None ]_vars

\* After a reset drew LEFT as the direction of the one-cell snake, the commit
\* of the next tick has rejected a buffered RIGHT.
C5_Witness ==
  /\ pc = "move" /\ ticks = 1 /\ Len(positions) = 1
  /\ direction = LEFT /\ next_direction = RIGHT

\* C6: a move resets the snake exactly when the computed new head equals a
\* cell at index >= 2 of the pre-move body; so a body of 1 or 2 cells never
\* resets, and a new head equal to body[0] or body[1] never does, whatever
\* the body length (a new head equal to body[0] does not occur at all: every
\* direction moves the head to another cell).
C6_ResetIffHit ==
  [][ MoveStep =>
        /\ ResetDone <=> HitsBodyFromIndex2
        /\ Len(positions) <= 2 => ~ResetDone
        /\ ( \/ ComputedHead = positions[1]
             \/ Len(positions) >= 2 /\ ComputedHead = positions[2] )
           => ~ResetDone
        /\ ComputedHead # positions[1] ]_vars

\* A snake of three cells or more has just moved onto its own neck cell
\* without a reset: the new head lies on the cell that is now at index 2.
C6_Witness ==
  /\ pc = "food" /\ ticks = 0 /\ Len(positions) >= 3
  /\ positions[1] = positions[3]

\* C7, on the 32x24 board of the program: at every tick boundary the cells
\* of the body are pairwise distinct.
C7_NoDuplicateCells ==
  AtTickBoundary =>
    \A i, j \in 1 .. Len(positions) : i # j => positions[i] # positions[j]

\* A tick boundary after a move of a body of five cells or more.
C7_Witness == AtTickBoundary /\ ticks >= 1 /\ Len(positions) >= 5

\* C8: the body is never empty and consecutive body cells are one
\* wrap-aware step apart; a move that does not reset puts the new head one
\* wrap-aware step from the previous head.
C8_BodyConnected ==
  /\ [](/\ Len(positions) >= 1
        /\ \A i \in 1 .. Len(positions) - 1 : WrapAdjacent(positions[i], positions[i + 1]))
  /\ [][ (MoveStep /\ ~HitsBodyFromIndex2) => WrapAdjacent(positions'[1], positions[1]) ]_vars

\* A body whose head and neck lie on opposite edges of the board.
C8_Witness ==
  /\ Len(positions) >= 2
  /\ positions[1][1] = SCREEN_WIDTH - GRID_SIZE
  /\ positions[2][1] = 0

\* C9: with a body of two cells or more, the direction is never the
\* opposite of the step that led from body[1] to body[0].
C9_NoReversal ==
  Len(positions) >= 2 =>
    \A d \in Directions :
       NewHead(positions[2], d) = positions[1] => direction # OppositeOf(d)

\* A body of two cells or more about to move after a commit that found a
\* reversal in the buffer: the reversal is still buffered, the direction is
\* the one of the previous step.
C9_Witness ==
  /\ pc = "move" /\ Len(positions) >= 2
  /\ next_direction = OppositeOf(direction)
  /\ NewHead(positions[2], direction) = positions[1]

\* C10: a move that resets leaves a body of exactly the centre cell
\* (16, 12), growth target 1, no buffered direction, and one of the four
\* directions.
C10_ResetState ==
  [][ (MoveStep /\ HitsBodyFromIndex2) =>
        /\ Len(positions') = 1
        /\ CellOf(positions'[1]) = <<16, 12>>
        /\ length' = 1
        /\ next_direction' = None
        /\ direction' \in {UP, DOWN, LEFT, RIGHT} ]_vars

\* A reset has just happened to a snake whose growth target was above 1 and
\* the direction drawn differs from the one before.
C10_Witness == AfterReset /\ direction = LEFT /\ length = 1 /\ next_direction = None

\* A pixel position whose cell lies on the board: 0 <= x < width and
\* 0 <= y < height.
InBoard(p) ==
  /\ p[1] >= 0 /\ CellOf(p)[1] < GRID_WIDTH
  /\ p[2] >= 0 /\ CellOf(p)[2] < GRID_HEIGHT

\* C11: a move off an edge re-enters at the opposite edge with the other
\* axis unchanged (RIGHT from the last column gives x = 0, LEFT from column
\* 0 gives x = width - 1, DOWN from the last row gives y = 0, UP from row 0
\* gives y = height - 1), and every body cell and the food cell always lie
\* on the board.
C11_WrapInRange ==
  /\ [](/\ \A i \in 1 .. Len(positions) : InBoard(positions[i])
        /\ InBoard(apple))
  /\ [][ (MoveStep /\ ~HitsBodyFromIndex2) =>
           LET h == CellOf(positions[1])
               n == CellOf(positions'[1])
           IN /\ (direction = RIGHT /\ h[1] = GRID_WIDTH - 1) => n = <<0, h[2]>>
              /\ (direction = LEFT /\ h[1] = 0) => n = <<GRID_WIDTH - 1, h[2]>>
              /\ (direction = DOWN /\ h[2] = GRID_HEIGHT - 1) => n = <<h[1], 0>>
              /\ (direction = UP /\ h[2] = 0) => n = <<h[1], GRID_HEIGHT - 1>> ]_vars

\* The one-cell snake that started in the corner of the last column and
\* last row has moved RIGHT off the last column to column 0 and then DOWN
\* off the last row to row 0.
C11_Witness ==
  /\ pc = "food" /\ ticks = 1 /\ direction = DOWN
  /\ positions = <<CornerStart>>
  /\ last = <<0, SCREEN_HEIGHT - GRID_SIZE>>

\* C12: when the head after a move that did not reset is on the food, the
\* food step raises the growth target by exactly 1 and draws a new food
\* position, and the body then has growth target - 1 cells (a one-cell snake
\* that eats still has one cell and growth target 2); the next move that
\* does not reset adds the missing cell.
C12_GrowthLags ==
  [][ /\ (FoodStep /\ ~AfterReset /\ positions[1] = apple) =>
           /\ length' = length + 1
           /\ apple' \in RandomPositions
           /\ Len(positions') = length' - 1
           /\ (Len(positions) = 1 => Len(positions') = 1 /\ length' = 2)
      /\ (MoveStep /\ ~HitsBodyFromIndex2 /\ Len(positions) < length) =>
           Len(positions') = Len(positions) + 1 ]_vars

\* Scenario A: the one-cell snake moved RIGHT from the centre onto the food
\* on the first tick; it still has one cell and its growth target is 2.
C12_Witness ==
  /\ AtTickBoundary /\ ticks = 1
  /\ positions = <<NewHead(Centre, RIGHT)>>
  /\ length = 2

\* The pixel position of a grid cell (grid coordinate times GRID_SIZE).
PixelOf(c) == << c[1] * GRID_SIZE, c[2] * GRID_SIZE >>

\* Scenario B: a snake built with body [(5,5),(4,5),(3,5),(2,5)] head
\* first, length 4, direction LEFT, and RIGHT buffered by one key event.
\* The fields are set directly, as a test would: with the head at (5,5) and
\* the neck at (4,5) the direction LEFT points into the neck, which the game
\* itself never produces.
ScenarioBBody == << PixelOf(<<5, 5>>), PixelOf(<<4, 5>>), PixelOf(<<3, 5>>), PixelOf(<<2, 5>>) >>

InitScenarioB ==
  /\ positions = ScenarioBBody
  /\ length = 4
  /\ direction = LEFT
  /\ next_direction = RIGHT
  /\ last = None
  /\ apple \in RandomPositions
  /\ pc = "keys"
  /\ nev = 1
  /\ event = "K_RIGHT"
  /\ ticks = 0

SpecScenarioB == InitScenarioB /\ [][Next]_vars

\* The commit and the move of scenario B: the steps of the first tick taken
\* with the scenario's body, direction LEFT and RIGHT buffered.
ScenarioBState ==
  /\ ticks = 0 /\ positions = ScenarioBBody
  /\ direction = LEFT /\ next_direction = RIGHT

\* C13 as stated: in scenario B the commit leaves direction LEFT, and the
\* move finds no collision, produces next head (1,5) and drops tail (2,5).
C13_ScenarioB_Head15 ==
  [][ ScenarioBState =>
        /\ CommitStep => direction' = LEFT
        /\ MoveStep => /\ ~ResetDone
                       /\ CellOf(positions'[1]) = <<1, 5>>
                       /\ last' = PixelOf(<<2, 5>>) ]_vars

\* C13 amended: in scenario B the commit leaves direction LEFT, and the
\* move finds no collision, produces next head (4,5), the neck cell, and
\* drops tail (2,5).
C13_ScenarioB_Head45 ==
  [][ ScenarioBState =>
        /\ CommitStep => direction' = LEFT
        /\ MoveStep => /\ ~ResetDone
                       /\ CellOf(positions'[1]) = <<4, 5>>
                       /\ last' = PixelOf(<<2, 5>>)
                       /\ Len(positions') = 4 ]_vars

\* Scenario B after its move: RIGHT still buffered, head on (4,5), (2,5)
\* dropped.
C13_Witness ==
  /\ pc = "food" /\ ticks = 0 /\ next_direction = RIGHT /\ direction = LEFT
  /\ positions = << PixelOf(<<4, 5>>), PixelOf(<<5, 5>>), PixelOf(<<4, 5>>), PixelOf(<<3, 5>>) >>
  /\ last = PixelOf(<<2, 5>>)

\* Scenario C: a snake whose body lies in row 5 across the board edge, head
\* on column 0, neck on the last column, the rest behind it, heading LEFT:
\* its next move wraps onto its own neck cell.  The body has 1 to MaxBody
\* cells and the snake is not growing.  The fields are set directly, as in
\* scenario B; the game itself never has direction pointing into the neck.
ScenarioCBody(k) ==
  [ i \in 1 .. k |-> << ((1 - i) * GRID_SIZE) % SCREEN_WIDTH, 5 * GRID_SIZE >> ]

InitScenarioC ==
  /\ \E k \in 1 .. MaxBody :
        /\ positions = ScenarioCBody(k)
        /\ length = k
  /\ direction = LEFT
  /\ next_direction = None
  /\ last = None
  /\ apple \in RandomPositions
  /\ pc = "keys"
  /\ nev = 0
  /\ event = NoEvent
  /\ ticks = 0

SpecScenarioC == InitScenarioC /\ [][Next]_vars

\* The directional keys and the direction each one stands for.
DirectionalKeys == {"K_UP", "K_DOWN", "K_LEFT", "K_RIGHT"}
KeyVector(k) ==
  CASE k = "K_UP" -> UP
    [] k = "K_DOWN" -> DOWN
    [] k = "K_LEFT" -> LEFT
    [] k = "K_RIGHT" -> RIGHT

\* One key event of the queue is processed.
KeyStep == pc = "keys" /\ pc' = "keys" /\ nev' = nev + 1

\* C14 as stated: the key events of a tick are all drained before the one
\* commit and the last directional event wins: while draining, the buffer
\* holds the direction of the latest directional event and the direction
\* and the body do not change; the commit compares only that buffered
\* direction with the current direction; there is one commit per tick and the
\* direction changes only there, so at most once per tick; and the move of
\* every tick advances the head by exactly one cell in the committed
\* direction.
C14_OneChangeOneCell ==
  /\ [](pc = "keys" /\ event \in DirectionalKeys => next_direction = KeyVector(event))
  /\ [][ /\ KeyStep => direction' = direction /\ positions' = positions
         /\ (CommitStep /\ event \in DirectionalKeys) =>
               direction' = IF KeyVector(event) = OppositeOf(direction)
                              THEN direction ELSE KeyVector(event)
         /\ (pc # "keys" /\ pc' = "keys") => ticks' = ticks + 1
         /\ direction' # direction => CommitStep
         /\ positions' # positions => MoveStep
         /\ MoveStep =>
               /\ WrapAdjacent(positions'[1], positions[1])
               /\ positions'[1] = NewHead(positions[1], direction) ]_vars

\* C14 amended: as above, except on a tick whose move finds a
\* self-collision: the commit changes the direction at most once per tick
\* and the direction changes nowhere else but in a reset, and a move that
\* does not reset advances the head by exactly one cell in the committed
\* direction, while a move that resets puts the head on the centre cell.
C14_LastEventWins ==
  /\ [](pc = "keys" /\ event \in DirectionalKeys => next_direction = KeyVector(event))
  /\ [][ /\ KeyStep => direction' = direction /\ positions' = positions
         /\ (CommitStep /\ event \in DirectionalKeys) =>
               direction' = IF KeyVector(event) = OppositeOf(direction)
                              THEN direction ELSE KeyVector(event)
         /\ (pc # "keys" /\ pc' = "keys") => ticks' = ticks + 1
         /\ direction' # direction => CommitStep \/ (MoveStep /\ HitsBodyFromIndex2)
         /\ positions' # positions => MoveStep
         /\ (MoveStep /\ ~HitsBodyFromIndex2) =>
               /\ WrapAdjacent(positions'[1], positions[1])
               /\ positions'[1] = NewHead(positions[1], direction)
         /\ (MoveStep /\ HitsBodyFromIndex2) => positions' = <<Centre>> ]_vars

\* The grown snake moving RIGHT is about to commit after two key events of
\* the first tick, the last of them LEFT.
C14_Witness ==
  /\ pc = "keys" /\ ticks = 0 /\ nev = 2 /\ event = "K_LEFT"
  /\ direction = RIGHT /\ next_direction = LEFT
  /\ Len(positions) >= 2

\* A grown snake in mid-game: six cells coiled around the centre, head on
\* the centre cell heading RIGHT towards its own tail, reached by the moves
\* RIGHT, DOWN, LEFT, LEFT, UP, RIGHT while eating.  Its growth target is 6,
\* or 7 when the head has just eaten; an apple under the head at a tick
\* boundary means it has just eaten.  Its last move kept the tail.
GrownBody ==
  << Centre,
     NewHead(Centre, LEFT),
     NewHead(NewHead(Centre, LEFT), DOWN),
     NewHead(Centre, DOWN),
     NewHead(NewHead(Centre, RIGHT), DOWN),
     NewHead(Centre, RIGHT) >>

InitGrown ==
  /\ positions = GrownBody
  /\ length \in {6, 7}
  /\ direction = RIGHT
  /\ next_direction = None
  /\ last = None
  /\ apple \in RandomPositions
  /\ (apple = Centre => length = 7)
  /\ pc = "keys"
  /\ nev = 0
  /\ event = NoEvent
  /\ ticks = 0

\* The game continued from the grown snake.
SpecGrown == InitGrown /\ [][Next]_vars

\* C15: the only state without a further step is QUIT: in every other state
\* the next step of the tick can be taken, and a move that finds a
\* self-collision ends, within the same tick, in the running state of a
\* reset snake, from which moves advance the snake as usual.
C15_NoStuckState ==
  /\ []((pc # "quit" /\ ticks < MaxTicks) => ENABLED (UpdateDirection \/ Move \/ EatCheck))
  /\ [][ /\ (MoveStep /\ HitsBodyFromIndex2) =>
              /\ ticks' = ticks
              /\ positions' = <<Centre>> /\ length' = 1
              /\ direction' \in Directions
         /\ pc = "move" => pc' = "food"
         /\ pc = "food" => pc' = "keys"
         /\ (MoveStep /\ ~HitsBodyFromIndex2) =>
              positions'[1] = NewHead(positions[1], direction) ]_vars

\* One tick after a reset, the one-cell snake has moved one cell away from
\* the centre.
C15_Witness ==
  /\ pc = "keys" /\ ticks = 2 /\ Len(positions) = 1 /\ length = 1
  /\ positions[1] = NewHead(Centre, direction) /\ last = Centre

\* C16: processing a key event changes only the buffer: a directional key
\* sets next_direction to its direction and leaves direction, body, growth
\* target and food unchanged; an unrecognised key leaves all of the state
\* unchanged, next_direction included.
C16_KeysOnlyBuffer ==
  [][ KeyStep =>
        /\ direction' = direction /\ positions' = positions
        /\ length' = length /\ apple' = apple
        /\ event' \in DirectionalKeys => next_direction' = KeyVector(event')
        /\ event' \notin DirectionalKeys =>
             next_direction' = next_direction /\ last' = last ]_vars

\* An unrecognised key has been processed after a directional one and the
\* buffered direction is still there.
C16_Witness ==
  /\ pc = "keys" /\ nev = 2 /\ event = "K_OTHER"
  /\ next_direction = UP /\ direction = RIGHT

\* C17: the relocation of the food avoids nothing: whenever the food is
\* eaten, every cell the draw can return is a possible new food position,
\* the cells under the snake's body and head included; so the food can lie
\* under the snake.
C17_NoOverlapAvoidance ==
  (pc = "food" /\ positions[1] = apple) =>
    /\ \A p \in RandomPositions : ENABLED (EatCheck /\ apple' = p)
    /\ \A i \in 1 .. Len(positions) :
         positions[i] \in RandomPositions => ENABLED (EatCheck /\ apple' = positions[i])

\* A tick boundary at which the new food lies under the head of a snake of
\* two cells or more that has just eaten.
C17_Witness ==
  /\ AtTickBoundary /\ ticks >= 2 /\ Len(positions) >= 2
  /\ apple = positions[1]
  /\ length = Len(positions) + 1

\* C18: at every tick boundary the growth target exceeds the body length by
\* 0 or 1, and right after a move that did not reset, before the food
\* check, the body length equals the growth target.
C18_LagAtMostOne ==
  /\ AtTickBoundary => (length - Len(positions)) \in {0, 1}
  /\ (pc = "food" /\ ~AfterReset) => Len(positions) = length

\* The grown snake ran into itself, the food check of the reset tick ate the
\* food lying on the centre, and the food was eaten again on the next tick:
\* two tick boundaries in a row, right after a reset, with the body one cell
\* behind its target (1 of 2, then 2 of 3).
C18_Witness ==
  /\ AtTickBoundary /\ ticks = 2 /\ length = 3 /\ Len(positions) = 2
  /\ positions[2] = Centre

\* C19: the collision test uses the body as it is before the move, its last
\* cell included: a snake that is not growing and whose new head is its own
\* tail cell, at index >= 2, is reset instead of following its tail.
C19_TailCellCollides ==
  [][ ( /\ MoveStep
        /\ Len(positions) = length /\ Len(positions) >= 3
        /\ ComputedHead = positions[Len(positions)] )
      => (ResetDone /\ length' = 1) ]_vars

\* A snake of four cells or more that is not growing has coiled back on
\* itself and is about to move onto its tail cell.
C19_Witness ==
  /\ pc = "move" /\ Len(positions) >= 4 /\ length = Len(positions)
  /\ ComputedHead = positions[Len(positions)]

\* The buffer holds nothing that a commit would apply: it is empty or holds
\* the opposite of the current direction.
NothingToApply == next_direction = None \/ next_direction = OppositeOf(direction)

\* C20: a buffered direction that a commit rejected never takes effect by
\* itself: at the start of a tick the buffer is empty or holds the opposite
\* of the current direction, a commit of a tick without key events leaves
\* the direction unchanged, and the direction changes only in a commit that
\* follows a key event or in a collision reset.
C20_RejectedStaysRejected ==
  /\ []((pc = "keys" /\ nev = 0) => NothingToApply)
  /\ [][ /\ (CommitStep /\ nev = 0) => direction' = direction
         /\ direction' # direction =>
              \/ CommitStep /\ nev > 0 /\ direction' = next_direction
              \/ MoveStep /\ HitsBodyFromIndex2 ]_vars

\* A tick starts, no key event drained yet, with the direction rejected by
\* the commit of an earlier tick still buffered.
C20_Witness ==
  /\ pc = "keys" /\ nev = 0 /\ ticks >= 1
  /\ next_direction # None /\ next_direction = OppositeOf(direction)
====
